---- MODULE Spec2Model ----
(***************************************************************************)
(* PyCalc: the expression pipeline of calculator/parser.py (tokeniser,     *)
(* shunting-yard conversion, RPN evaluation), the operator registry of     *)
(* calculator/operations.py, the history of calculator/history.py and the  *)
(* interactive loop of main.py.                                            *)
(*                                                                         *)
(* Conventions of the model                                                *)
(*  - A Python str that the code indexes (an expression) is a sequence of  *)
(*    one-character strings; indices of the code are 0-based and are kept  *)
(*    0-based here (expression[i] is expr[i + 1]).  A str that the code    *)
(*    only measures and uses as a dict key (an operator symbol) is a TLA+  *)
(*    string.                                                              *)
(*  - A Python float is an exact rational [type |-> "float", num, den] in  *)
(*    lowest terms with den > 0.  A float that is not such a rational      *)
(*    within the integer range of the model (a power with a non-integer    *)
(*    exponent, a power too large) is kept as an unevaluated term          *)
(*    [type |-> "float", op, left, right]; rounding is not modelled.       *)
(*  - A call returns Ok(value) or, when it raises, Raise(exception).       *)
(***************************************************************************)
EXTENDS Integers, Sequences, FiniteSets, TLC

VARIABLES registry, input, call, ret, records, pc, written

vars == <<registry, input, call, ret, records, pc, written>>

\* The state of the interactive loop of main.run: the history's records, the
\* position of the loop, and the lines written by its last iteration.
shell == <<records, pc, written>>

(***************************************************************************)
(* Outcomes of a call and the exceptions the code raises                   *)
(***************************************************************************)
Ok(v) == [kind |-> "ok", value |-> v]

Raise(e) == [kind |-> "error", error |-> e]

NoReturn == [kind |-> "none"]

PyNone == [type |-> "NoneType"]

PyList(items) == [type |-> "list", items |-> items]

InvalidOperatorSymbol ==
    [exc |-> "ValueError", msg |-> "Operation symbol must be a single character."]

UnknownOperator(symbol) == [exc |-> "KeyError", key |-> symbol]

UnexpectedCharacter(i, ch) ==
    [exc |-> "ValueError", msg |-> "Unexpected character", position |-> i, character |-> ch]

MismatchedParentheses == [exc |-> "ValueError", msg |-> "Mismatched parentheses"]

InsufficientOperands == [exc |-> "ValueError", msg |-> "Insufficient values in expression"]

InvalidToken == [exc |-> "ValueError", msg |-> "Invalid token in RPN expression"]

InvalidExpression == [exc |-> "ValueError", msg |-> "Invalid expression"]

ArithmeticFailure == [exc |-> "ZeroDivisionError", msg |-> "division by zero"]

ZeroToNegativePower ==
    [exc |-> "ZeroDivisionError", msg |-> "0.0 cannot be raised to a negative power"]

FloatModulo == [exc |-> "ZeroDivisionError", msg |-> "float modulo"]

(***************************************************************************)
(* Number = float                                                          *)
(***************************************************************************)
Abs(n) == IF n < 0 THEN -n ELSE n

RECURSIVE GCD(_, _)
GCD(a, b) == IF b = 0 THEN a ELSE GCD(b, a % b)

\* The float n/d (d # 0), in lowest terms with a positive denominator.
Number(n, d) ==
    LET g == GCD(Abs(n), Abs(d))
        s == IF d < 0 THEN -1 ELSE 1
    IN  [type |-> "float", num |-> (s * n) \div g, den |-> (s * d) \div g]

Float(n) == Number(n, 1)

Term(op, left, right) == [type |-> "float", op |-> op, left |-> left, right |-> right]

IsRational(x) == "num" \in DOMAIN x

IsZero(x) == IsRational(x) /\ x.num = 0

IsIntegral(x) == IsRational(x) /\ x.den = 1

\* Largest magnitude the model computes exactly.
IntLimit == 1000000

\* base^e for integers base and e >= 0.
RECURSIVE IntPower(_, _)
IntPower(base, e) == IF e = 0 THEN 1 ELSE base * IntPower(base, e - 1)

\* Whether base^e stays within IntLimit (2^20 already does not).
RECURSIVE PowerFits(_, _)
PowerFits(base, e) ==
    \/ Abs(base) <= 1
    \/ e = 0
    \/ /\ e <= 20
       /\ PowerFits(base, e - 1)
       /\ Abs(IntPower(base, e - 1)) * Abs(base) <= IntLimit

\* lambda a, b: a + b
FAdd(a, b) ==
    IF IsRational(a) /\ IsRational(b)
    THEN Ok(Number(a.num * b.den + b.num * a.den, a.den * b.den))
    ELSE Ok(Term("+", a, b))

\* lambda a, b: a - b
FSub(a, b) ==
    IF IsRational(a) /\ IsRational(b)
    THEN Ok(Number(a.num * b.den - b.num * a.den, a.den * b.den))
    ELSE Ok(Term("-", a, b))

\* lambda a, b: a * b
FMul(a, b) ==
    IF IsRational(a) /\ IsRational(b)
    THEN Ok(Number(a.num * b.num, a.den * b.den))
    ELSE Ok(Term("*", a, b))

\* _safe_divide with its guard left out: the quotient by zero is a value.
SafeDivideUnguarded(a, b) ==
    IF IsZero(b) THEN Ok(Term("/", a, b))
    ELSE IF IsRational(a) /\ IsRational(b)
    THEN Ok(Number(a.num * b.den, a.den * b.num))
    ELSE Ok(Term("/", a, b))

\* OperationEngine._safe_divide
SafeDivide(a, b) ==
    IF IsZero(b) THEN Raise(ArithmeticFailure)
    ELSE IF IsRational(a) /\ IsRational(b)
    THEN Ok(Number(a.num * b.den, a.den * b.num))
    ELSE Ok(Term("/", a, b))

\* lambda a, b: a ** b.  No power of the expressions considered here leaves the
\* range of a float (3 ** 333 is the largest), so OverflowError does not arise.
FPow(a, b) ==
    IF IsZero(b) THEN Ok(Float(1))
    ELSE IF a = Float(1) THEN Ok(Float(1))
    ELSE IF IsZero(a)
    THEN (IF IsRational(b) /\ b.num < 0 THEN Raise(ZeroToNegativePower)
          ELSE IF IsRational(b) THEN Ok(Float(0)) ELSE Ok(Term("^", a, b)))
    ELSE IF IsRational(a) /\ IsIntegral(b)
    THEN LET e == Abs(b.num)
         IN  IF ~(PowerFits(a.num, e) /\ PowerFits(a.den, e)) THEN Ok(Term("^", a, b))
             ELSE IF b.num > 0 THEN Ok(Number(IntPower(a.num, e), IntPower(a.den, e)))
             ELSE Ok(Number(IntPower(a.den, e), IntPower(a.num, e)))
    ELSE Ok(Term("^", a, b))

\* lambda a, b: a % b (the operator the tests register)
FMod(a, b) ==
    IF IsZero(b) THEN Raise(FloatModulo)
    ELSE IF IsRational(a) /\ IsRational(b)
    THEN LET n == a.num * b.den
             m == b.num * a.den
             d == a.den * b.den
             q == IF m > 0 THEN n \div m ELSE (-n) \div (-m)
         IN  Ok(Number(n - q * m, d))
    ELSE Ok(Term("%", a, b))

\* Operation.__call__: the functions are named, func(left, right) is their call.
CallFunc(func, left, right) ==
    CASE func = "add" -> FAdd(left, right)
      [] func = "sub" -> FSub(left, right)
      [] func = "mul" -> FMul(left, right)
      [] func = "_safe_divide" -> SafeDivide(left, right)
      [] func = "pow" -> FPow(left, right)
      [] func = "mod" -> FMod(left, right)

(***************************************************************************)
(* OperationEngine                                                         *)
(***************************************************************************)
Operation(symbol, func, precedence) ==
    [symbol |-> symbol, func |-> func, precedence |-> precedence, associative |-> TRUE]

\* OperationEngine.__init__ / _register_default_operations
DefaultOperations ==
    [s \in {"+", "-", "*", "/", "^"} |->
        CASE s = "+" -> Operation("+", "add", 1)
          [] s = "-" -> Operation("-", "sub", 1)
          [] s = "*" -> Operation("*", "mul", 2)
          [] s = "/" -> Operation("/", "_safe_divide", 2)
          [] s = "^" -> Operation("^", "pow", 3)]

\* OperationEngine.has
Has(ops, symbol) == symbol \in DOMAIN ops

\* OperationEngine.get
Get(ops, symbol) ==
    IF symbol \in DOMAIN ops THEN Ok(ops[symbol]) ELSE Raise(UnknownOperator(symbol))

\* OperationEngine.apply
Apply(ops, symbol, left, right) ==
    LET op == Get(ops, symbol)
    IN  IF op.kind = "error" THEN op
        ELSE CallFunc(op.value.func, left, right)

\* register with the length test left out: only the empty symbol is rejected.
RegisterResultNoLengthCheck(ops, symbol, func, precedence) ==
    IF symbol = ""
    THEN [ret |-> Raise(InvalidOperatorSymbol), ops |-> ops]
    ELSE [ret |-> Ok(PyNone),
          ops |-> [s \in DOMAIN ops \cup {symbol} |->
                      IF s = symbol THEN Operation(symbol, func, precedence) ELSE ops[s]]]

\* OperationEngine.register: what it returns or raises, and the mapping afterwards.
RegisterResult(ops, symbol, func, precedence) ==
    IF symbol = "" \/ Len(symbol) # 1
    THEN [ret |-> Raise(InvalidOperatorSymbol), ops |-> ops]
    ELSE [ret |-> Ok(PyNone),
          ops |-> [s \in DOMAIN ops \cup {symbol} |->
                      IF s = symbol THEN Operation(symbol, func, precedence) ELSE ops[s]]]

(***************************************************************************)
(* Tokens                                                                  *)
(***************************************************************************)
NumberToken(value) == [type |-> "NumberToken", value |-> value]

OperatorToken(symbol) == [type |-> "OperatorToken", symbol |-> symbol]

LeftParenToken == [type |-> "LeftParenToken"]

RightParenToken == [type |-> "RightParenToken"]

IsNumberToken(t) == t.type = "NumberToken"

IsOperatorToken(t) == t.type = "OperatorToken"

IsLeftParen(t) == t.type = "LeftParenToken"

IsRightParen(t) == t.type = "RightParenToken"

(***************************************************************************)
(* ExpressionParser._tokenise                                              *)
(***************************************************************************)
\* str.isspace and str.isdigit, on the ASCII characters.
IsSpace(ch) == ch \in {" ", "\t", "\n", "\r"}

Digits == <<"0", "1", "2", "3", "4", "5", "6", "7", "8", "9">>

IsDigit(ch) == \E k \in 1..10 : Digits[k] = ch

DigitValue(ch) == (CHOOSE k \in 1..10 : Digits[k] = ch) - 1

\* The digits of a literal read as one integer, its "." skipped.
RECURSIVE DigitsValue(_, _)
DigitsValue(literal, acc) ==
    IF literal = <<>> THEN acc
    ELSE IF Head(literal) = "." THEN DigitsValue(Tail(literal), acc)
    ELSE DigitsValue(Tail(literal), 10 * acc + DigitValue(Head(literal)))

\* The number of digits after the "." of a literal (0 without one).
RECURSIVE FractionDigits(_)
FractionDigits(literal) ==
    IF literal = <<>> THEN 0
    ELSE IF Head(literal) = "." THEN Len(literal) - 1
    ELSE FractionDigits(Tail(literal))

\* float(expression[start:i]) of a literal the scan accepted.
ParseFloat(literal) == Number(DigitsValue(literal, 0), IntPower(10, FractionDigits(literal)))

\* The inner while of the number branch: the index where the literal ends.
RECURSIVE ScanNumber(_, _, _)
ScanNumber(expression, i, has_dot) ==
    IF i < Len(expression)
    THEN LET c == expression[i + 1]
         IN  IF IsDigit(c) THEN ScanNumber(expression, i + 1, has_dot)
             ELSE IF c = "." /\ ~has_dot THEN ScanNumber(expression, i + 1, TRUE)
             ELSE i
    ELSE i

\* The condition of the number branch at index i.
StartsNumber(expression, i) ==
    LET ch == expression[i + 1]
    IN  \/ IsDigit(ch)
        \/ ch = "." /\ i + 1 < Len(expression) /\ IsDigit(expression[i + 2])

\* The operator branch with the symbols hard-coded: only the built-in ones.
IsOperatorCharBuiltin(ops, ch) == ch \in DOMAIN DefaultOperations

\* The condition of the operator branch: self.engine.has(ch).
IsOperatorChar(ops, ch) == Has(ops, ch)

\* The final raise with the position counted from 1.
RaiseUnexpectedOneBased(expression, i) ==
    Raise(UnexpectedCharacter(i + 1, expression[i + 1]))

\* The final raise of the loop body.
RaiseUnexpected(expression, i) == Raise(UnexpectedCharacter(i, expression[i + 1]))

\* The outer while, from cursor i with the tokens appended so far.
RECURSIVE TokeniseFrom(_, _, _, _)
TokeniseFrom(ops, expression, i, tokens) ==
    IF ~(i < Len(expression)) THEN Ok(tokens)
    ELSE LET ch == expression[i + 1]
         IN  IF IsSpace(ch) THEN TokeniseFrom(ops, expression, i + 1, tokens)
             ELSE IF StartsNumber(expression, i)
             THEN LET end == ScanNumber(expression, i + 1, ch = ".")
                      literal == SubSeq(expression, i + 1, end)
                  IN  TokeniseFrom(ops, expression, end,
                                   Append(tokens, NumberToken(ParseFloat(literal))))
             ELSE IF ch = "("
             THEN TokeniseFrom(ops, expression, i + 1, Append(tokens, LeftParenToken))
             ELSE IF ch = ")"
             THEN TokeniseFrom(ops, expression, i + 1, Append(tokens, RightParenToken))
             ELSE IF IsOperatorChar(ops, ch)
             THEN TokeniseFrom(ops, expression, i + 1, Append(tokens, OperatorToken(ch)))
             ELSE RaiseUnexpected(expression, i)

Tokenise(ops, expression) == TokeniseFrom(ops, expression, 0, <<>>)

(***************************************************************************)
(* ExpressionParser._to_rpn                                                *)
(***************************************************************************)
\* The unary-minus test; prev is the previous token, or PyNone before the first.
IsUnaryMinus(token, prev) ==
    /\ token.symbol = "-"
    /\ \/ prev = PyNone
       \/ prev.type = "OperatorToken"
       \/ prev.type = "LeftParenToken"

\* The pop test with > for >=: only strictly higher precedence is popped.
ShouldPopStrict(top_precedence, cur_precedence) == top_precedence > cur_precedence

\* top_op.precedence >= cur_op.precedence
ShouldPop(top_precedence, cur_precedence) == top_precedence >= cur_precedence

\* The while of the operator branch: [ok, ops, output], or ok = FALSE with the
\* KeyError of engine.get.
RECURSIVE PopOperators(_, _, _, _)
PopOperators(engine, stack, output, symbol) ==
    IF stack # <<>> /\ IsOperatorToken(stack[Len(stack)])
    THEN LET top == stack[Len(stack)]
             top_op == Get(engine, top.symbol)
             cur_op == Get(engine, symbol)
         IN  IF top_op.kind = "error" THEN [ok |-> FALSE, error |-> top_op.error]
             ELSE IF cur_op.kind = "error" THEN [ok |-> FALSE, error |-> cur_op.error]
             ELSE IF ShouldPop(top_op.value.precedence, cur_op.value.precedence)
             THEN PopOperators(engine, SubSeq(stack, 1, Len(stack) - 1),
                               Append(output, top), symbol)
             ELSE [ok |-> TRUE, ops |-> stack, output |-> output]
    ELSE [ok |-> TRUE, ops |-> stack, output |-> output]

\* The while of the right-parenthesis branch: pop until a left parenthesis is on top.
RECURSIVE PopToLeftParen(_, _)
PopToLeftParen(stack, output) ==
    IF stack # <<>> /\ ~IsLeftParen(stack[Len(stack)])
    THEN PopToLeftParen(SubSeq(stack, 1, Len(stack) - 1), Append(output, stack[Len(stack)]))
    ELSE [ops |-> stack, output |-> output]

\* The drain with its test left out: a left parenthesis still on the stack is
\* dropped silently.
RECURSIVE DrainUnchecked(_, _)
DrainUnchecked(stack, output) ==
    IF stack = <<>> THEN Ok(output)
    ELSE IF IsLeftParen(stack[Len(stack)])
    THEN DrainUnchecked(SubSeq(stack, 1, Len(stack) - 1), output)
    ELSE DrainUnchecked(SubSeq(stack, 1, Len(stack) - 1), Append(output, stack[Len(stack)]))

\* "Drain remaining operators".
RECURSIVE Drain(_, _)
Drain(stack, output) ==
    IF stack = <<>> THEN Ok(output)
    ELSE IF IsLeftParen(stack[Len(stack)]) THEN Raise(MismatchedParentheses)
    ELSE Drain(SubSeq(stack, 1, Len(stack) - 1), Append(output, stack[Len(stack)]))

\* The for loop, from the k-th token with the locals output, ops and prev.
RECURSIVE ToRpnFrom(_, _, _, _, _, _)
ToRpnFrom(engine, tokens, k, output, ops, prev) ==
    IF k > Len(tokens) THEN Drain(ops, output)
    ELSE LET token == tokens[k]
         IN  IF IsNumberToken(token)
             THEN ToRpnFrom(engine, tokens, k + 1, Append(output, token), ops, token)
             ELSE IF IsOperatorToken(token)
             THEN LET out0 == IF IsUnaryMinus(token, prev)
                              THEN Append(output, NumberToken(Float(0)))
                              ELSE output
                      popped == PopOperators(engine, ops, out0, token.symbol)
                  IN  IF ~popped.ok THEN Raise(popped.error)
                      ELSE ToRpnFrom(engine, tokens, k + 1, popped.output,
                                     Append(popped.ops, token), token)
             ELSE IF IsLeftParen(token)
             THEN ToRpnFrom(engine, tokens, k + 1, output, Append(ops, token), token)
             ELSE LET popped == PopToLeftParen(ops, output)
                  IN  IF popped.ops = <<>> THEN Raise(MismatchedParentheses)
                      ELSE ToRpnFrom(engine, tokens, k + 1, popped.output,
                                     SubSeq(popped.ops, 1, Len(popped.ops) - 1), token)

ToRpn(engine, tokens) == ToRpnFrom(engine, tokens, 1, <<>>, <<>>, PyNone)

(***************************************************************************)
(* ExpressionParser._eval_rpn                                              *)
(***************************************************************************)
\* "return stack": the list itself is returned.
ReturnStack(stack) == Ok(PyList(stack))

\* The for loop, from the k-th token with the value stack.
RECURSIVE EvalRpnFrom(_, _, _, _)
EvalRpnFrom(engine, tokens, k, stack) ==
    IF k > Len(tokens)
    THEN (IF Len(stack) # 1 THEN Raise(InvalidExpression) ELSE ReturnStack(stack))
    ELSE LET token == tokens[k]
         IN  IF IsNumberToken(token)
             THEN EvalRpnFrom(engine, tokens, k + 1, Append(stack, token.value))
             ELSE IF IsOperatorToken(token)
             THEN IF Len(stack) < 2 THEN Raise(InsufficientOperands)
                  ELSE LET b == stack[Len(stack)]
                           a == stack[Len(stack) - 1]
                           res == Apply(engine, token.symbol, a, b)
                       IN  IF res.kind = "error" THEN res
                           ELSE EvalRpnFrom(engine, tokens, k + 1,
                                            Append(SubSeq(stack, 1, Len(stack) - 2), res.value))
             ELSE Raise(InvalidToken)

EvalRpn(engine, tokens) == EvalRpnFrom(engine, tokens, 1, <<>>)

(***************************************************************************)
(* ExpressionParser.evaluate                                               *)
(***************************************************************************)
Evaluate(engine, expression) ==
    LET tokens == Tokenise(engine, expression)
    IN  IF tokens.kind = "error" THEN tokens
        ELSE LET rpn == ToRpn(engine, tokens.value)
             IN  IF rpn.kind = "error" THEN rpn
                 ELSE EvalRpn(engine, rpn.value)

(***************************************************************************)
(* The calls, as actions.  input is the argument a caller holds: the text  *)
(* of an expression, or a token list.                                      *)
(***************************************************************************)
NoCall == [op |-> "none"]

\* engine.register(symbol, func, precedence)
Register(symbol, func, precedence) ==
    LET r == RegisterResult(registry, symbol, func, precedence)
    IN  /\ call' = [op |-> "register", symbol |-> symbol, func |-> func,
                    precedence |-> precedence]
        /\ ret' = r.ret
        /\ registry' = r.ops
        /\ UNCHANGED <<input, shell>>

\* parser._tokenise(input)
DoTokenise ==
    /\ call' = [op |-> "_tokenise"]
    /\ ret' = Tokenise(registry, input)
    /\ UNCHANGED <<registry, input, shell>>

\* parser._to_rpn(input)
DoToRpn ==
    /\ call' = [op |-> "_to_rpn"]
    /\ ret' = ToRpn(registry, input)
    /\ UNCHANGED <<registry, input, shell>>

\* parser._eval_rpn(input)
DoEvalRpn ==
    /\ call' = [op |-> "_eval_rpn"]
    /\ ret' = EvalRpn(registry, input)
    /\ UNCHANGED <<registry, input, shell>>

\* parser.evaluate(input)
DoEvaluate ==
    /\ call' = [op |-> "evaluate"]
    /\ ret' = Evaluate(registry, input)
    /\ UNCHANGED <<registry, input, shell>>

\* No interactive loop is running: the components are used directly.
NoShell ==
    /\ records = <<>>
    /\ pc = "not started"
    /\ written = <<>>

\* All sequences over S of length at most n.
SeqsUpTo(S, n) == UNION {[1..k -> S] : k \in 0..n}

(***************************************************************************)
(* Spec: a parser with the default engine, given the text of an expression *)
(***************************************************************************)
MaxText == 5

EvalChars == {"1", "2", "3", "+", "-", "*", "^", "(", ")", " "}

Init ==
    /\ registry = DefaultOperations
    /\ input \in SeqsUpTo(EvalChars, MaxText)
    /\ call = NoCall
    /\ ret = NoReturn
    /\ NoShell

Next == DoTokenise \/ DoEvaluate

Spec == Init /\ [][Next]_vars

(***************************************************************************)
(* SpecDiv: the same parser on expressions that divide                     *)
(***************************************************************************)
MaxDivText == 5

DivChars == {"0", "2", "/", "+", " "}

InitDiv ==
    /\ registry = DefaultOperations
    /\ input \in SeqsUpTo(DivChars, MaxDivText)
    /\ call = NoCall
    /\ ret = NoReturn
    /\ NoShell

SpecDiv == InitDiv /\ [][Next]_vars

(***************************************************************************)
(* SpecTok: an engine that the application extends, and the tokeniser on   *)
(* texts that hold registered, built-in and unknown characters             *)
(***************************************************************************)
MaxTokText == 5

TokChars == {"1", ".", " ", "%", "+", "a"}

TokSymbols == {"%", "1"}

InitTok ==
    /\ registry = DefaultOperations
    /\ input \in SeqsUpTo(TokChars, MaxTokText)
    /\ call = NoCall
    /\ ret = NoReturn
    /\ NoShell

NextTok ==
    \/ \E symbol \in TokSymbols : Register(symbol, "mod", 2)
    \/ DoTokenise

SpecTok == InitTok /\ [][NextTok]_vars

(***************************************************************************)
(* SpecReg: the engine alone, under any sequence of register calls         *)
(***************************************************************************)
RegSymbols == {"", "%", "+", "1", " ", "%%", "+-", "mod"}

RegFuncs == {"add", "mod"}

RegPrecedences == {1, 2}

InitReg ==
    /\ registry = DefaultOperations
    /\ input = <<>>
    /\ call = NoCall
    /\ ret = NoReturn
    /\ NoShell

NextReg ==
    \E symbol \in RegSymbols, func \in RegFuncs, precedence \in RegPrecedences :
        Register(symbol, func, precedence)

SpecReg == InitReg /\ [][NextReg]_vars

(***************************************************************************)
(* SpecRpn: _to_rpn on any list of tokens of the default operators         *)
(***************************************************************************)
MaxTokens == 5

OperatorTokens == {OperatorToken(s) : s \in DOMAIN DefaultOperations}

InfixTokens ==
    {NumberToken(Float(2)), NumberToken(Float(3))} \cup OperatorTokens
        \cup {LeftParenToken, RightParenToken}

InitRpn ==
    /\ registry = DefaultOperations
    /\ input \in SeqsUpTo(InfixTokens, MaxTokens)
    /\ call = NoCall
    /\ ret = NoReturn
    /\ NoShell

NextRpn == DoToRpn

SpecRpn == InitRpn /\ [][NextRpn]_vars

(***************************************************************************)
(* SpecPostfix: _eval_rpn on any list of Number and Operator tokens        *)
(***************************************************************************)
MaxPostfix == 5

PostfixTokens ==
    {NumberToken(Float(0)), NumberToken(Float(2)), NumberToken(Float(3))} \cup OperatorTokens

InitPostfix ==
    /\ registry = DefaultOperations
    /\ input \in SeqsUpTo(PostfixTokens, MaxPostfix)
    /\ call = NoCall
    /\ ret = NoReturn
    /\ NoShell

NextPostfix == DoEvalRpn

SpecPostfix == InitPostfix /\ [][NextPostfix]_vars

(***************************************************************************)
(* The history of calculator/history.py and the interactive loop of        *)
(* main.run.  A line of input is a sequence of one-character strings, as   *)
(* an expression is.                                                       *)
(***************************************************************************)
HistoryRecord(expression, result) == [expression |-> expression, result |-> result]

\* A faulty add, which puts the new record first.
HistoryAddFirst(recs, expression, result) ==
    <<HistoryRecord(expression, result)>> \o recs

\* HistoryManager.add
HistoryAdd(recs, expression, result) ==
    Append(recs, HistoryRecord(expression, result))

\* HistoryManager.get_all: a copy of the list
HistoryGetAll(recs) == PyList(recs)

\* HistoryManager.clear
HistoryClear(recs) == <<>>

\* str.strip()
RECURSIVE LStrip(_)
LStrip(s) == IF s # <<>> /\ IsSpace(Head(s)) THEN LStrip(Tail(s)) ELSE s

RECURSIVE RStrip(_)
RStrip(s) ==
    IF s # <<>> /\ IsSpace(s[Len(s)]) THEN RStrip(SubSeq(s, 1, Len(s) - 1)) ELSE s

Strip(s) == RStrip(LStrip(s))

\* str.lower(), on the letters of ASCII
UpperCase ==
    <<"A", "B", "C", "D", "E", "F", "G", "H", "I", "J", "K", "L", "M",
      "N", "O", "P", "Q", "R", "S", "T", "U", "V", "W", "X", "Y", "Z">>

LowerCase ==
    <<"a", "b", "c", "d", "e", "f", "g", "h", "i", "j", "k", "l", "m",
      "n", "o", "p", "q", "r", "s", "t", "u", "v", "w", "x", "y", "z">>

LowerChar(ch) ==
    IF \E k \in DOMAIN UpperCase : UpperCase[k] = ch
    THEN LowerCase[CHOOSE k \in DOMAIN UpperCase : UpperCase[k] = ch]
    ELSE ch

Lower(s) == [k \in 1..Len(s) |-> LowerChar(s[k])]

\* The meta-commands of the loop
QuitWord == <<"q", "u", "i", "t">>

ExitWord == <<"e", "x", "i", "t">>

HistoryWord == <<"h", "i", "s", "t", "o", "r", "y">>

ClearWord == <<"c", "l", "e", "a", "r">>

\* What io.read_line raises instead of returning a line
EOFError == [exc |-> "EOFError"]

KeyboardInterrupt == [exc |-> "KeyboardInterrupt"]

\* The lines io.write_line is given
Goodbye == [text |-> "Goodbye."]

Exiting == [text |-> "\nExiting PyCalc."]

NoHistory == [text |-> "(no history)"]

HistoryCleared == [text |-> "History cleared."]

\* f"{idx}: {record.expression} = {record.result}", for each record in turn
HistoryLines(recs) ==
    [idx \in 1..Len(recs) |->
        [idx |-> idx, expression |-> recs[idx].expression, result |-> recs[idx].result]]

\* str(result)
ResultLine(result) == [str |-> result]

\* f"Error: {exc}"
ErrorLine(exc) == [text |-> "Error: ", exc |-> exc]

MaxRecords == 3

\* One iteration of the loop in which read_line returns a line.  The
\* history is kept to MaxRecords records: no line is read once it is full.
ReadLine(line) ==
    /\ pc = "loop"
    /\ Len(records) < MaxRecords
    /\ input' = line
    /\ UNCHANGED registry
    /\ LET stripped == Strip(line)
           lower == Lower(stripped)
       IN  IF stripped = <<>>
           THEN /\ call' = NoCall
                /\ ret' = NoReturn
                /\ written' = <<>>
                /\ UNCHANGED <<records, pc>>
           ELSE IF lower \in {QuitWord, ExitWord}
           THEN /\ call' = NoCall
                /\ ret' = NoReturn
                /\ written' = <<Goodbye>>
                /\ pc' = "done"
                /\ UNCHANGED records
           ELSE IF lower = HistoryWord
           THEN /\ call' = [op |-> "get_all"]
                /\ ret' = Ok(HistoryGetAll(records))
                /\ written' = IF records = <<>> THEN <<NoHistory>>
                                                ELSE HistoryLines(records)
                /\ UNCHANGED <<records, pc>>
           ELSE IF lower = ClearWord
           THEN /\ call' = [op |-> "clear"]
                /\ ret' = Ok(PyNone)
                /\ records' = HistoryClear(records)
                /\ written' = <<HistoryCleared>>
                /\ UNCHANGED pc
           ELSE LET result == Evaluate(registry, stripped)
                IN  /\ call' = [op |-> "evaluate", expression |-> stripped]
                    /\ ret' = result
                    /\ IF result.kind = "ok"
                       THEN /\ records' = HistoryAdd(records, stripped, result.value)
                            /\ written' = <<ResultLine(result.value)>>
                       ELSE /\ written' = <<ErrorLine(result.error)>>
                            /\ UNCHANGED records
                    /\ UNCHANGED pc

\* An iteration in which read_line raises exc: EOFError at the end of the
\* input, KeyboardInterrupt when the user interrupts the prompt.
ReadRaises(exc) ==
    /\ pc = "loop"
    /\ call' = [op |-> "read_line"]
    /\ ret' = Raise(exc)
    /\ written' = <<Exiting>>
    /\ pc' = "done"
    /\ UNCHANGED <<registry, input, records>>

ReadEndOfInput == ReadRaises(EOFError)

ReadInterrupted == ReadRaises(KeyboardInterrupt)

(***************************************************************************)
(* SpecRepl: the loop of main.run, under any sequence of lines             *)
(***************************************************************************)
ReplLines ==
    { <<>>, <<" ">>, <<" ", "\t">>,
      QuitWord, ExitWord, HistoryWord, ClearWord,
      <<" ", "Q", "u", "i", "t", " ">>, <<"E", "X", "I", "T">>,
      <<"H", "i", "s", "t", "o", "r", "y", " ">>, <<" ", "C", "L", "E", "A", "R">>,
      <<"1", "+", "2">>, <<" ", "1", "+", "2", " ">>, <<"2", "*", "3">>, <<"7">>,
      <<"1", "/", "0">>, <<"1", "+">>, <<"(", "1">>, <<"x">>,
      <<"q", "u", "i", "t", " ", "1">>, <<"e", "x", "i", "t", "(", ")">> }

InitRepl ==
    /\ registry = DefaultOperations
    /\ input = <<>>
    /\ call = NoCall
    /\ ret = NoReturn
    /\ records = <<>>
    /\ pc = "loop"
    /\ written = <<>>

NextRepl ==
    \/ \E line \in ReplLines : ReadLine(line)
    \/ ReadEndOfInput
    \/ ReadInterrupted

SpecRepl == InitRepl /\ [][NextRepl]_vars

(***************************************************************************)
(* Reference notions the properties are stated with                        *)
(***************************************************************************)
\* The value of a one-digit literal.
DigitFloat(ch) == Float(DigitValue(ch))

DigitChars == {ch \in EvalChars : IsDigit(ch)}

\* left op right for a default operator, when neither application raises.
Bin(symbol, left, right) == Apply(DefaultOperations, symbol, left, right).value

\* Parentheses are balanced: no prefix closes more than it opens, and all that
\* open are closed.
RECURSIVE BalancedFrom(_, _, _)
BalancedFrom(tokens, k, depth) ==
    IF k > Len(tokens) THEN depth = 0
    ELSE IF IsLeftParen(tokens[k]) THEN BalancedFrom(tokens, k + 1, depth + 1)
    ELSE IF IsRightParen(tokens[k]) THEN depth > 0 /\ BalancedFrom(tokens, k + 1, depth - 1)
    ELSE BalancedFrom(tokens, k + 1, depth)

Balanced(tokens) == BalancedFrom(tokens, 1, 0)

\* A '-' at position k stands where a binary operator cannot.
UnaryPosition(tokens, k) ==
    /\ tokens[k] = OperatorToken("-")
    /\ \/ k = 1
       \/ IsOperatorToken(tokens[k - 1])
       \/ IsLeftParen(tokens[k - 1])

\* A token list is a well-formed infix expression: it is not empty, its
\* parentheses balance, an operand (a number or '(') or a unary minus opens it and
\* follows every operator and every '(', and an operator, a ')' or the end follows
\* every number and every ')'.
StartsOperand(tokens, k) ==
    /\ k <= Len(tokens)
    /\ \/ IsNumberToken(tokens[k])
       \/ IsLeftParen(tokens[k])
       \/ tokens[k] = OperatorToken("-")

WellFormed(tokens) ==
    /\ tokens # <<>>
    /\ Balanced(tokens)
    /\ StartsOperand(tokens, 1)
    /\ \A k \in 1..Len(tokens) :
          IF IsOperatorToken(tokens[k]) \/ IsLeftParen(tokens[k])
          THEN StartsOperand(tokens, k + 1)
          ELSE k = Len(tokens) \/ IsOperatorToken(tokens[k + 1]) \/ IsRightParen(tokens[k + 1])

(***************************************************************************)
(* C1                                                                      *)
(***************************************************************************)
\* C1: evaluate returns the Number an expression denotes, higher precedence binding
\* tighter: evaluate("a + b * c") is the number a + (b * c) and evaluate("a ^ b * c")
\* is the number (a ^ b) * c, for all one-digit a, b, c.
C1_PrecedenceValue ==
    call.op = "evaluate" =>
        \A a, b, c \in DigitChars :
            /\ input = <<a, "+", b, "*", c>> =>
                  ret = Ok(Bin("+", DigitFloat(a), Bin("*", DigitFloat(b), DigitFloat(c))))
            /\ input = <<a, "^", b, "*", c>> =>
                  ret = Ok(Bin("*", Bin("^", DigitFloat(a), DigitFloat(b)), DigitFloat(c)))

(***************************************************************************)
(* C2                                                                      *)
(***************************************************************************)
\* The index of the ')' that closes the '(' at k (depth counts the open ones), or 0.
RECURSIVE ClosingParen(_, _, _)
ClosingParen(tokens, k, depth) ==
    IF k > Len(tokens) THEN 0
    ELSE IF IsLeftParen(tokens[k]) THEN ClosingParen(tokens, k + 1, depth + 1)
    ELSE IF IsRightParen(tokens[k])
    THEN (IF depth = 1 THEN k ELSE ClosingParen(tokens, k + 1, depth - 1))
    ELSE ClosingParen(tokens, k + 1, depth)

\* The last index of the operand that starts at k: a number, or a parenthesised
\* group; 0 when no operand starts there.
OperandEnd(tokens, k) ==
    IF k > Len(tokens) THEN 0
    ELSE IF IsNumberToken(tokens[k]) THEN k
    ELSE IF IsLeftParen(tokens[k]) THEN ClosingParen(tokens, k, 0)
    ELSE 0

\* The expression with the "-x" at k written "(0 - x)".
NegationParenthesised(tokens, k) ==
    LET e == OperandEnd(tokens, k + 1)
    IN  SubSeq(tokens, 1, k - 1)
            \o <<LeftParenToken, NumberToken(Float(0)), OperatorToken("-")>>
            \o SubSeq(tokens, k + 1, e)
            \o <<RightParenToken>>
            \o SubSeq(tokens, e + 1, Len(tokens))

\* evaluate on an expression given by its tokens.
EvaluateTokens(engine, tokens) ==
    LET rpn == ToRpn(engine, tokens)
    IN  IF rpn.kind = "error" THEN rpn ELSE EvalRpn(engine, rpn.value)

\* C2: a '-' in unary position negates the operand after it: a well-formed
\* expression holding "-x", x a number or a parenthesised group, evaluates to what
\* the same expression with "(0 - x)" in its place evaluates to.
C2_UnaryMinusNegates ==
    (call.op = "evaluate" /\ Tokenise(registry, input).kind = "ok") =>
        LET tokens == Tokenise(registry, input).value
        IN  WellFormed(tokens) =>
                \A k \in 1..Len(tokens) :
                    (UnaryPosition(tokens, k) /\ OperandEnd(tokens, k + 1) > 0) =>
                        ret = EvaluateTokens(registry, NegationParenthesised(tokens, k))

(***************************************************************************)
(* C4                                                                      *)
(***************************************************************************)
\* C4: evaluate returns no value for malformed input: a text whose tokens are not a
\* well-formed infix expression ends in MismatchedParentheses, InsufficientOperands
\* or InvalidExpression.
C4_MalformedRejected ==
    (call.op = "evaluate" /\ Tokenise(registry, input).kind = "ok") =>
        (~WellFormed(Tokenise(registry, input).value) =>
            /\ ret.kind = "error"
            /\ ret.error \in {MismatchedParentheses, InsufficientOperands, InvalidExpression})

(***************************************************************************)
(* C3                                                                      *)
(***************************************************************************)
\* C3: _to_rpn fails with MismatchedParentheses exactly when the parentheses of its
\* token list are unbalanced (a ')' with no open '(' before it, or a '(' never
\* closed); a balanced list never fails so.
C3_MismatchIffUnbalanced ==
    call.op = "_to_rpn" => (ret = Raise(MismatchedParentheses) <=> ~Balanced(input))

\* An unclosed '(' around a sum is reported.
C3_Witness ==
    /\ call.op = "_to_rpn"
    /\ input = <<LeftParenToken, NumberToken(Float(2)), OperatorToken("+"),
                 NumberToken(Float(3))>>
    /\ ret = Raise(MismatchedParentheses)

(***************************************************************************)
(* C9                                                                      *)
(***************************************************************************)
SamePrecedence(op1, op2) ==
    DefaultOperations[op1].precedence = DefaultOperations[op2].precedence

\* C9: operators of equal precedence group left to right, '^' included: _to_rpn of
\* a op1 b op2 c is a b op1 c op2, and the one value its evaluation leaves is
\* (a op1 b) op2 c.
C9_EqualPrecedenceLeftToRight ==
    (/\ call.op = "_to_rpn"
     /\ Len(input) = 5
     /\ IsNumberToken(input[1]) /\ IsOperatorToken(input[2]) /\ IsNumberToken(input[3])
     /\ IsOperatorToken(input[4]) /\ IsNumberToken(input[5])
     /\ SamePrecedence(input[2].symbol, input[4].symbol)) =>
        LET a == input[1].value
            b == input[3].value
            c == input[5].value
            op1 == input[2].symbol
            op2 == input[4].symbol
        IN  /\ ret = Ok(<<NumberToken(a), NumberToken(b), OperatorToken(op1),
                          NumberToken(c), OperatorToken(op2)>>)
            /\ EvalRpn(registry, ret.value).kind = "ok"
            /\ EvalRpn(registry, ret.value).value.items = <<Bin(op2, Bin(op1, a, b), c)>>

\* 2 ^ 3 ^ 2 becomes 2 3 ^ 2 ^, which leaves 64.
C9_Witness ==
    /\ call.op = "_to_rpn"
    /\ input = <<NumberToken(Float(2)), OperatorToken("^"), NumberToken(Float(3)),
                 OperatorToken("^"), NumberToken(Float(2))>>
    /\ ret = Ok(<<NumberToken(Float(2)), NumberToken(Float(3)), OperatorToken("^"),
                  NumberToken(Float(2)), OperatorToken("^")>>)
    /\ EvalRpn(registry, ret.value).value.items = <<Float(64)>>

(***************************************************************************)
(* The value stack of a postfix evaluation, by its definition              *)
(***************************************************************************)
\* The value stack once the first n tokens of a postfix list are consumed, each
\* operator applied to the value pushed earlier (left) and the one pushed later
\* (right); ok is FALSE once an operator lacks an operand or its function fails.
RECURSIVE StackAfter(_, _, _)
StackAfter(engine, tokens, n) ==
    IF n = 0 THEN [ok |-> TRUE, stack |-> <<>>]
    ELSE LET before == StackAfter(engine, tokens, n - 1)
             token == tokens[n]
         IN  IF ~before.ok THEN before
             ELSE IF IsNumberToken(token)
             THEN [ok |-> TRUE, stack |-> Append(before.stack, token.value)]
             ELSE IF Len(before.stack) < 2 THEN [ok |-> FALSE]
             ELSE LET m == Len(before.stack)
                      r == Apply(engine, token.symbol, before.stack[m - 1], before.stack[m])
                  IN  IF r.kind = "error" THEN [ok |-> FALSE]
                      ELSE [ok |-> TRUE,
                            stack |-> Append(SubSeq(before.stack, 1, m - 2), r.value)]

\* The k-th token is a '/' that the evaluation reaches with zero on top of the stack.
DividesByZeroAt(engine, tokens, k) ==
    /\ tokens[k] = OperatorToken("/")
    /\ StackAfter(engine, tokens, k - 1).ok
    /\ Len(StackAfter(engine, tokens, k - 1).stack) >= 2
    /\ LET stack == StackAfter(engine, tokens, k - 1).stack
       IN  IsZero(stack[Len(stack)])

\* The k-th token is an operator that the evaluation reaches with fewer than two
\* values on the stack.
UnderflowsAt(engine, tokens, k) ==
    /\ IsOperatorToken(tokens[k])
    /\ StackAfter(engine, tokens, k - 1).ok
    /\ Len(StackAfter(engine, tokens, k - 1).stack) < 2

(***************************************************************************)
(* C6                                                                      *)
(***************************************************************************)
\* C6: when the postfix evaluation of an expression applies '/' to a right operand
\* that is zero, evaluate fails with ArithmeticFailure, and with nothing else:
\* no value is returned and no later token decides the outcome.
C6_DivisionByZeroFails ==
    (/\ call.op = "evaluate"
     /\ Tokenise(registry, input).kind = "ok"
     /\ ToRpn(registry, Tokenise(registry, input).value).kind = "ok") =>
        LET rpn == ToRpn(registry, Tokenise(registry, input).value).value
        IN  (\E k \in 1..Len(rpn) : DividesByZeroAt(registry, rpn, k)) =>
                ret = Raise(ArithmeticFailure)

\* 2/0+2 fails at the division; the addition after it is never applied.
C6_Witness ==
    /\ call.op = "evaluate"
    /\ input = <<"2", "/", "0", "+", "2">>
    /\ ret = Raise(ArithmeticFailure)

(***************************************************************************)
(* C10                                                                     *)
(***************************************************************************)
\* C10: _eval_rpn on Number and Operator tokens fails with InsufficientOperands
\* exactly when it reaches an operator with fewer than two values on the stack;
\* otherwise, once every token is consumed, it returns the single value left, the
\* operand pushed earlier having been the left one, and fails with
\* InvalidExpression when no value or more than one is left.
C10_EvalPostfix ==
    call.op = "_eval_rpn" =>
        LET final == StackAfter(registry, input, Len(input))
        IN  /\ ret = Raise(InsufficientOperands) <=>
                  \E k \in 1..Len(input) : UnderflowsAt(registry, input, k)
            /\ final.ok =>
                  IF Len(final.stack) = 1 THEN ret = Ok(final.stack[1])
                  ELSE ret = Raise(InvalidExpression)

(***************************************************************************)
(* C7                                                                      *)
(***************************************************************************)
\* The first index of the run of digits that ends just before index i (i itself
\* when no digit stands before i).
RECURSIVE DigitRunStart(_, _)
DigitRunStart(text, i) ==
    IF i > 0 /\ IsDigit(text[i]) THEN DigitRunStart(text, i - 1) ELSE i

\* The "." at index i belongs to a numeric literal: a digit follows it, or digits
\* that no "." precedes stand right before it.
DotInLiteral(text, i) ==
    \/ i + 1 < Len(text) /\ IsDigit(text[i + 2])
    \/ LET start == DigitRunStart(text, i)
       IN  start < i /\ (start = 0 \/ text[start] # ".")

\* The character at index i matches no rule of the grammar.
Unexpected(ops, text, i) ==
    LET ch == text[i + 1]
    IN  /\ ~IsSpace(ch)
        /\ ~IsDigit(ch)
        /\ ch \notin {"(", ")"}
        /\ ~Has(ops, ch)
        /\ ch = "." => ~DotInLiteral(text, i)

UnexpectedIndices(ops, text) == {i \in 0..(Len(text) - 1) : Unexpected(ops, text, i)}

Least(S) == CHOOSE i \in S : \A j \in S : i <= j

\* C7: _tokenise fails with UnexpectedCharacter exactly when the text holds a
\* character that is no whitespace, no part of a numeric literal, no parenthesis
\* and no registered operator symbol; it reports the 0-based index of the first
\* such character in the text, whitespace counted, and that character.
C7_UnexpectedCharacterPosition ==
    call.op = "_tokenise" =>
        LET bad == UnexpectedIndices(registry, input)
        IN  IF bad = {} THEN ret.kind = "ok"
            ELSE ret = Raise(UnexpectedCharacter(Least(bad), input[Least(bad) + 1]))

\* "1 + a" fails at position 4 with 'a'.
C7_Witness ==
    /\ call.op = "_tokenise"
    /\ input = <<"1", " ", "+", " ", "a">>
    /\ ret = Raise(UnexpectedCharacter(4, "a"))

(***************************************************************************)
(* C5                                                                      *)
(***************************************************************************)
Count(seq, x) == Cardinality({k \in DOMAIN seq : seq[k] = x})

\* A character that an earlier rule of the tokeniser takes: whitespace, a digit,
\* the "." of a literal, a parenthesis.
TakenByEarlierRule(ch) == IsSpace(ch) \/ IsDigit(ch) \/ ch \in {".", "(", ")"}

\* The symbol s is usable as soon as it is registered: has(s) holds once register
\* has returned, its function is the one applied, and a later _tokenise makes an
\* Operator token of each occurrence of s and never rejects s.
UsableOnceRegistered(s) ==
    /\ (call.op = "register" /\ call.symbol = s /\ ret.kind = "ok") =>
          /\ Has(registry, s)
          /\ call.func = "mod" => Apply(registry, s, Float(10), Float(3)) = Ok(Float(1))
    /\ (call.op = "_tokenise" /\ Has(registry, s)) =>
          /\ ret.kind = "ok" => Count(ret.value, OperatorToken(s)) = Count(input, s)
          /\ ret.kind = "error" => ret.error.character # s

C8_RegisterStep ==
    LET symbol == call'.symbol
    IN  IF Len(symbol) # 1
        THEN /\ ret' = Raise(InvalidOperatorSymbol)
             /\ registry' = registry
        ELSE /\ ret' = Ok(PyNone)
             /\ DOMAIN registry' = DOMAIN registry \cup {symbol}
             /\ registry'[symbol] = Operation(symbol, call'.func, call'.precedence)
             /\ \A other \in DOMAIN registry \ {symbol} : registry'[other] = registry[other]

C8_RegisterValidates == [][C8_RegisterStep]_vars

\* register("+", mod, 2) has replaced the built-in addition.
C8_Witness ==
    /\ call = [op |-> "register", symbol |-> "+", func |-> "mod", precedence |-> 2]
    /\ ret = Ok(PyNone)
    /\ registry["+"] = Operation("+", "mod", 2)
    /\ registry["-"] = DefaultOperations["-"]

(***************************************************************************)
(* The interactive loop                                                    *)
(***************************************************************************)
\* Two characters that are the same letter, whatever their case.
SameLetter(a, b) ==
    \/ a = b
    \/ \E k \in DOMAIN UpperCase : {a, b} = {UpperCase[k], LowerCase[k]}

\* line is word, in any case, between runs of whitespace.
IsWord(line, word) ==
    \E i \in 0..Len(line) :
        /\ i + Len(word) <= Len(line)
        /\ \A k \in 1..i : IsSpace(line[k])
        /\ \A k \in 1..Len(word) : SameLetter(line[i + k], word[k])
        /\ \A k \in (i + Len(word) + 1)..Len(line) : IsSpace(line[k])

ControlWord(line) ==
    \E word \in {HistoryWord, ClearWord, QuitWord, ExitWord} : IsWord(line, word)

EndingWord(line) == IsWord(line, QuitWord) \/ IsWord(line, ExitWord)

Blank(line) == \A k \in DOMAIN line : IsSpace(line[k])

Greatest(S) == CHOOSE i \in S : \A j \in S : j <= i

\* A line that is not blank, from its first to its last visible character.
Trimmed(line) ==
    LET visible == {k \in DOMAIN line : ~IsSpace(line[k])}
    IN  SubSeq(line, Least(visible), Greatest(visible))

\* The step is an iteration in which read_line returned the line input'.
LineRead == call'.op # "read_line"

\* What an iteration does with the line it read: a control word is not
\* evaluated; any other line that is not blank is evaluated, trimmed, and the
\* history gains the record of it, last, exactly when evaluate returns;
\* when evaluate raises the history is as before and the loop goes on.
C11_LineHandled ==
    LineRead =>
        LET line == input'
        IN  /\ ControlWord(line) => call'.op # "evaluate"
            /\ (~ControlWord(line) /\ ~Blank(line)) =>
                  /\ call' = [op |-> "evaluate", expression |-> Trimmed(line)]
                  /\ ret' = Evaluate(registry, Trimmed(line))
                  /\ ret'.kind = "ok" =>
                        records' = Append(records,
                                          HistoryRecord(Trimmed(line), ret'.value))
                  /\ ret'.kind = "error" => (records' = records /\ pc' = "loop")

\* The step ends the loop.
LoopEnds == pc = "loop" /\ pc' = "done"

EndsOnQuit == LineRead /\ EndingWord(input')

EndsOnEndOfInput == ~LineRead /\ ret' = Raise(EOFError)

EndsOnInterrupt == ~LineRead /\ ret' = Raise(KeyboardInterrupt)

\* C11, as stated: in every iteration of the loop a control word (history,
\* clear, quit, exit, in any case, trimmed) is not forwarded to evaluate;
\* for any other line that is not blank the history gains exactly one
\* (expression, result) record, last, if evaluate succeeds and is unchanged
\* if it fails, and after a failure the loop is still reading; and the loop
\* ends only on quit/exit or at the end of the input.
C11_EndsOnlyOnQuitOrEndOfInput ==
    [][/\ pc = "loop"
       /\ C11_LineHandled
       /\ LoopEnds => (EndsOnQuit \/ EndsOnEndOfInput)]_vars

\* C11, amended: the same, and the loop ends only on quit/exit, at the end
\* of the input, or when the prompt is interrupted from the keyboard.
C11_EndsOnlyOnQuitEndOfInputOrInterrupt ==
    [][/\ pc = "loop"
       /\ C11_LineHandled
       /\ LoopEnds => (EndsOnQuit \/ EndsOnEndOfInput \/ EndsOnInterrupt)]_vars

\* "1+2" and then "2*3" were evaluated and recorded in that order, and the
\* loop has ended on an interrupt of the prompt.
C11_Witness ==
    /\ pc = "done"
    /\ call = [op |-> "read_line"]
    /\ ret = Raise(KeyboardInterrupt)
    /\ records = << HistoryRecord(<<"1", "+", "2">>, PyList(<<Float(3)>>)),
                    HistoryRecord(<<"2", "*", "3">>, PyList(<<Float(6)>>)) >>

====
